---- MODULE Spec2Model ----
(***************************************************************************)
(* Model of the Raycast MCP server's tool-invocation router.               *)
(*                                                                         *)
(* A string is a sequence of atoms.  An atom is one character, or a        *)
(* fragment of literal program text (or an enumerated identifier) that no  *)
(* operation of the program looks inside.  Text that the program parses    *)
(* (custom_key, the stdout of the confirmation dialog) and free text that  *)
(* is spliced into a payload is written character by character.            *)
(*                                                                         *)
(* An optional value is a tuple of length 0 (undefined) or 1.              *)
(***************************************************************************)
EXTENDS Integers, Sequences, FiniteSets, TLC

VARIABLES request, response, invocations, authCalls, config, execResult,
          lastCreated

vars == <<request, response, invocations, authCalls, config, execResult, lastCreated>>

-----------------------------------------------------------------------------
(* Bounds of the model *)

\* longest list of modifier tokens in a generated custom_key
MaxMods == 2
\* largest clipboard history index in a paste request
MaxIndex == 1

-----------------------------------------------------------------------------
(* Optional values and JavaScript strings *)

None == <<>>
Some(x) == <<x>>
IsSome(o) == o # None
Val(o) == o[1]

\* truthiness of an optional string: undefined and "" are falsy
TruthyStr(o) == IsSome(o) /\ Val(o) # <<>>
\* truthiness of an optional boolean
TruthyBool(o) == IsSome(o) /\ Val(o) = TRUE

\* ${x} in a template literal, for an optional string: undefined prints as "undefined"
Interp(o) == IF IsSome(o) THEN Val(o) ELSE <<"undefined">>

Whitespace == {" ", "\n", "\t"}

RECURSIVE TrimStart(_)
TrimStart(s) ==
  IF s # <<>> /\ Head(s) \in Whitespace THEN TrimStart(Tail(s)) ELSE s

RECURSIVE TrimEnd(_)
TrimEnd(s) ==
  IF s # <<>> /\ s[Len(s)] \in Whitespace
    THEN TrimEnd(SubSeq(s, 1, Len(s) - 1))
    ELSE s

\* String.prototype.trim
Trim(s) == TrimEnd(TrimStart(s))

LowerAtom(a) ==
  CASE a = "C" -> "c" [] a = "M" -> "m" [] a = "D" -> "d" [] a = "S" -> "s"
    [] a = "H" -> "h" [] a = "I" -> "i" [] a = "F" -> "f" [] a = "T" -> "t"
    [] a = "K" -> "k" [] a = "A" -> "a" [] a = "L" -> "l" [] a = "R" -> "r"
    [] OTHER -> a

\* String.prototype.toLowerCase
toLowerCase(s) == [i \in DOMAIN s |-> LowerAtom(s[i])]

UpperAtom(a) ==
  CASE a = "show" -> "SHOW" [] a = "clear" -> "CLEAR" [] a = "copy" -> "COPY"
    [] a = "paste" -> "PASTE" [] a = "hide" -> "HIDE" [] a = "toggle" -> "TOGGLE"
    [] a = "focus" -> "FOCUS" [] a = "foo" -> "FOO"
    [] a = "sleep" -> "SLEEP" [] a = "restart" -> "RESTART"
    [] a = "shutdown" -> "SHUTDOWN" [] a = "lock" -> "LOCK"
    [] a = "logout" -> "LOGOUT" [] a = "empty-trash" -> "EMPTY-TRASH"
    [] a = "eject-all" -> "EJECT-ALL"
    [] a = "raycast" -> "RAYCAST" [] a = "github" -> "GITHUB"
    [] a = "notion" -> "NOTION" [] a = "figma" -> "FIGMA"
    [] a = "slack" -> "SLACK" [] a = "linear" -> "LINEAR" [] a = "jira" -> "JIRA"
    [] a = "bitbucket" -> "BITBUCKET" [] a = "constructor" -> "CONSTRUCTOR"
    [] a = "format" -> "FORMAT"
    [] OTHER -> a

\* String.prototype.toUpperCase
toUpperCase(s) == [i \in DOMAIN s |-> UpperAtom(s[i])]

\* String.prototype.slice(0, -n)
SliceEnd(s, n) == IF Len(s) <= n THEN <<>> ELSE SubSeq(s, 1, Len(s) - n)

RECURSIVE SplitFrom(_, _, _)
SplitFrom(s, sep, cur) ==
  IF s = <<>> THEN <<cur>>
  ELSE IF Head(s) = sep THEN <<cur>> \o SplitFrom(Tail(s), sep, <<>>)
  ELSE SplitFrom(Tail(s), sep, Append(cur, Head(s)))

\* String.prototype.split(sep) for a one-character separator
Split(s, sep) == SplitFrom(s, sep, <<>>)

\* Array.prototype.filter
RECURSIVE Filter(_, _)
Filter(seq, S) ==
  IF seq = <<>> THEN <<>>
  ELSE IF Head(seq) \in S THEN <<Head(seq)>> \o Filter(Tail(seq), S)
  ELSE Filter(Tail(seq), S)

\* Array.prototype.includes
Includes(seq, x) == \E i \in DOMAIN seq : seq[i] = x

\* Array.prototype.find(k => k is not in S): undefined when there is none
FindNotIn(seq, S) ==
  IF \E i \in DOMAIN seq : seq[i] \notin S
    THEN Some(seq[CHOOSE i \in DOMAIN seq :
                    /\ seq[i] \notin S
                    /\ \A j \in 1..(i - 1) : seq[j] \in S])
    ELSE None

PercentAtom(a) ==
  CASE a = " " -> "%20" [] a = "\"" -> "%22" [] a = "$" -> "%24"
    [] a = "&" -> "%26" [] a = "+" -> "%2B" [] a = "/" -> "%2F"
    [] a = ";" -> "%3B"
    [] OTHER -> a

\* encodeURIComponent: letters, digits and - _ . ! ~ * ' ( ) are kept
encodeURIComponent(o) == LET s == Interp(o) IN [i \in DOMAIN s |-> PercentAtom(s[i])]

-----------------------------------------------------------------------------
(* The external process layer: child_process.exec promisified *)

\* the promise of execAsync resolves with the child's stdout
Resolved(stdout) ==
  [ok |-> TRUE, stdout |-> stdout, stderr |-> <<>>, code |-> "0",
   killed |-> FALSE, message |-> <<>>]

\* the promise rejects with an error object: code is the exit code or the
\* errno name, killed tells that exec itself killed the child
Rejected(code, killed, message) ==
  [ok |-> FALSE, stdout |-> <<>>, stderr |-> <<>>, code |-> code,
   killed |-> killed, message |-> message]

\* the child exits with a non-zero status
ExitFailure == Rejected("1", FALSE, <<"Command failed">>)
\* the child could not be spawned
SpawnFailure == Rejected("ENOENT", FALSE, <<"spawn ENOENT">>)
\* an errno-level failure of the invocation that reports ETIMEDOUT
ErrnoTimedOut == Rejected("ETIMEDOUT", FALSE, <<"spawn ETIMEDOUT">>)
\* exec's timeout option expired: exec kills the child with SIGTERM and the
\* error carries killed = true, signal = SIGTERM and no exit code
KilledOnTimeout == Rejected("null", TRUE, <<"Command failed">>)
\* a rejection whose error has an empty message
SilentFailure == Rejected("1", FALSE, <<>>)

\* the child never exits and nothing kills it: the promise never settles,
\* and the code awaiting it never runs on (nothing ever reads this record)
NeverExits ==
  [ok |-> FALSE, stdout |-> <<>>, stderr |-> <<>>, code |-> "pending",
   killed |-> FALSE, message |-> <<>>]

\* outcomes of a call of execAsync made without a timeout option
PlainOutcomes == {Resolved(<<>>), ExitFailure, NeverExits}

\* what the scripted confirmation dialog can print, or its failure
DialogOutcomes ==
  { Resolved(<<"confirmed", "\n">>), Resolved(<<"cancelled", "\n">>),
    Resolved(<<"Confirmed", "\n">>), Resolved(<<" ", "confirmed", " ", "\n">>),
    Resolved(<<>>), ExitFailure }

InvocationEchoingOutcome(via, command, outcome) ==
  [via |-> via, command |-> command \o outcome.stdout, outcome |-> outcome]

\* an external invocation that was started, with its outcome
Invocation(via, command, outcome) ==
  [via |-> via, command |-> command, outcome |-> outcome]

\* index of the first rejected call among the first n, 0 when all resolve
FirstFail(outs, n) ==
  IF \E i \in 1..n : ~outs[i].ok
    THEN CHOOSE i \in 1..n : ~outs[i].ok /\ \A j \in 1..(i - 1) : outs[j].ok
    ELSE 0

ChainRunningOn(cmds, outs) ==
  LET f == FirstFail(outs, Len(cmds))
  IN [invocations |-> [i \in 1..Len(cmds) |-> Invocation("exec", cmds[i], outs[i])],
      threw |-> f # 0,
      message |-> IF f # 0 THEN outs[f].message ELSE <<>>]

\* awaiting the commands one after the other: a rejection throws, and the
\* commands after it are not started
Chain(cmds, outs) ==
  LET f == FirstFail(outs, Len(cmds))
      k == IF f = 0 THEN Len(cmds) ELSE f
  IN [invocations |-> [i \in 1..k |-> Invocation("exec", cmds[i], outs[i])],
      threw |-> f # 0,
      message |-> IF f # 0 THEN outs[f].message ELSE <<>>]

-----------------------------------------------------------------------------
(* Responses and the results of handlers *)

\* a ToolResponse; isError is TRUE when the field is present (and true)
Success(text) == [raised |-> FALSE, isError |-> FALSE, text |-> text]
Failure(text) == [raised |-> FALSE, isError |-> TRUE, text |-> text]
\* no ToolResponse: the handler's promise rejected
Raised(message) == [raised |-> TRUE, isError |-> FALSE, text |-> message]

\* a handler returned a response
Return(resp, inv, auth) ==
  [threw |-> FALSE, error |-> <<>>, response |-> resp,
   invocations |-> inv, authCalls |-> auth]
\* a handler threw
Throw(message, inv, auth) ==
  [threw |-> TRUE, error |-> message, response |-> Raised(message),
   invocations |-> inv, authCalls |-> auth]

\* destructuring an undefined argument bag
TypeErrorUndefined == <<"Cannot destructure property of undefined">>
\* calling a method of undefined
TypeErrorNoMethod == <<"Cannot read properties of undefined">>
\* child_process.exec given a command that is no string
TypeErrorCommand == <<"The \"command\" argument must be of type string">>

\* members every object literal inherits from Object.prototype
PrototypeKeys == {<<"constructor">>}
\* the text of an inherited member (a function) in a template literal
InheritedText == <<"function Object() { [native code] }">>

NoArgs ==
  [action |-> None, service |-> None, query |-> None, execute |-> None,
   command |-> None, extension |-> None, args |-> None, text |-> None,
   index |-> None, shortcut |-> None, custom_key |-> None, function |-> None,
   confirm |-> None, extension_id |-> None, publish_path |-> None,
   name |-> None, steps |-> None, trigger |-> None]

-----------------------------------------------------------------------------
(* tools.js *)

Timeout == 60000

TimedOutMessage ==
  <<"Raycast operation timed out. This may be normal for complex AppleScript operations. Operation was attempted but may need manual verification.">>

executeRaycastCommand(command, outcome) ==
  IF outcome.ok
    THEN [threw |-> FALSE, stdout |-> outcome.stdout, stderr |-> outcome.stderr]
    ELSE IF outcome.code = "ETIMEDOUT"
      THEN [threw |-> FALSE, stdout |-> <<>>, stderr |-> TimedOutMessage]
      ELSE [threw |-> FALSE, stdout |-> <<>>,
            stderr |-> IF outcome.message # <<>> THEN outcome.message
                       ELSE <<"Raycast command execution failed">>]

\* the command openRaycast hands to execAsync
openRaycast == <<"open -a Raycast">>

\* the command triggerRaycastURL hands to execAsync
triggerRaycastURL(url) == <<"open \"">> \o url \o <<"\"">>

-----------------------------------------------------------------------------
(* handlers.js *)

handleRaycastSearch(arguments, outs) ==
  IF arguments = None THEN Throw(TypeErrorUndefined, <<>>, <<>>)
  ELSE
    LET args == Val(arguments)
        query == args.query
        execute == TruthyBool(args.execute)
        raycastURL == <<"raycast://script-commands/search?query=">>
                        \o encodeURIComponent(query)
        appleScript ==
          <<"tell application \"Raycast\" activate delay 0.5 end tell ",
            "tell application \"System Events\" keystroke \"">>
            \o Interp(query) \o <<"\" ">>
            \o (IF execute THEN <<"delay 0.5\nkey code 36">> ELSE <<>>)
            \o <<" end tell">>
        c == Chain(<< triggerRaycastURL(raycastURL),
                      <<"osascript -e '">> \o appleScript \o <<"'">> >>, outs)
    IN IF c.threw
         THEN Return(Failure(<<"(x) ", "Raycast search failed: ">> \o c.message),
                     c.invocations, <<>>)
         ELSE Return(Success(<<"(search) ", "Raycast Search: \"">> \o Interp(query)
                               \o <<"\"">>
                               \o (IF execute THEN <<" (executed first result)">>
                                   ELSE <<>>)
                               \o <<"\n\n(ok) Raycast opened with search query">>),
                     c.invocations, <<>>)

\* commandMap[command]: the table entry, an inherited member, or undefined
commandMap(command) ==
  CASE command = <<"clipboard-history">> ->
         Some(<<"extensions/raycast/clipboard-history/clipboard-history">>)
    [] command = <<"emoji">> -> Some(<<"extensions/raycast/emoji-symbols/emoji-symbols">>)
    [] command = <<"calculator">> -> Some(<<"extensions/raycast/calculator/calculator">>)
    [] command = <<"calendar">> -> Some(<<"extensions/raycast/calendar/my-schedule">>)
    [] command = <<"contacts">> -> Some(<<"extensions/raycast/contacts/search-contacts">>)
    [] command = <<"reminders">> ->
         Some(<<"extensions/raycast/apple-reminders/create-reminder">>)
    [] command = <<"notes">> -> Some(<<"extensions/raycast/apple-notes/search-notes">>)
    [] command = <<"safari-bookmarks">> ->
         Some(<<"extensions/raycast/safari/search-bookmarks">>)
    [] command \in PrototypeKeys -> Some(InheritedText)
    [] OTHER -> None

\* the URL handleRaycastOpen resolves for a truthy command or extension
openURL(args) ==
  IF TruthyStr(args.command)
    THEN LET command == Val(args.command)
             mappedCommand == IF IsSome(commandMap(command))
                                THEN Val(commandMap(command))
                                ELSE <<"extensions/">> \o command
         IN <<"raycast://">> \o mappedCommand
              \o (IF TruthyStr(args.args)
                    THEN <<"?arguments=">> \o encodeURIComponent(args.args)
                    ELSE <<>>)
    ELSE <<"raycast://", "extensions/">> \o Val(args.extension)

handleRaycastOpen(arguments, outs) ==
  IF arguments = None THEN Throw(TypeErrorUndefined, <<>>, <<>>)
  ELSE
    LET args == Val(arguments)
        plain == ~TruthyStr(args.command) /\ ~TruthyStr(args.extension)
        c == Chain(<< IF plain THEN openRaycast
                      ELSE triggerRaycastURL(openURL(args)) >>, outs)
    IN IF c.threw
         THEN Return(Failure(<<"(x) ", "Raycast command failed: ">> \o c.message),
                     c.invocations, <<>>)
         ELSE IF plain
           THEN Return(Success(<<"(rocket) ", "Raycast opened">>), c.invocations, <<>>)
           ELSE Return(Success(<<"(rocket) ", "Raycast Command: ">>
                                 \o (IF TruthyStr(args.command) THEN Val(args.command)
                                     ELSE Val(args.extension))
                                 \o <<"\n\n(ok) Command executed successfully">>),
                       c.invocations, <<>>)

clipboardHistoryURL ==
  <<"raycast://extensions/raycast/clipboard-history/clipboard-history">>

clearScript ==
  <<"tell application \"Raycast\" activate end tell tell application \"System Events\" keystroke \",\" using command down delay 1 keystroke \"clipboard\" delay 0.5 key code 36 delay 0.5 keystroke \"Clear History\" delay 0.5 key code 36 end tell">>

\* the commands a clipboard action awaits, in order
clipboardCommands(args) ==
  LET action == args.action
  IN CASE action = Some(<<"show">>) -> << triggerRaycastURL(clipboardHistoryURL) >>
       [] action = Some(<<"clear">>) -> << <<"osascript -e '">> \o clearScript \o <<"'">> >>
       [] action = Some(<<"copy">>) ->
            << <<"echo \"">> \o Val(args.text) \o <<"\" | pbcopy">> >>
       [] action = Some(<<"paste">>) ->
            IF args.index # None
              THEN << triggerRaycastURL(clipboardHistoryURL),
                      <<"osascript -e 'tell application \"System Events\" to key code 125 repeat ",
                        ToString(Val(args.index)), " times'">>,
                      <<"osascript -e 'tell application \"System Events\" to key code 36'">> >>
              ELSE << <<"osascript -e 'tell application \"System Events\" to keystroke \"v\" using command down'">> >>
       [] OTHER -> <<>>

handleRaycastClipboard(arguments, outs) ==
  IF arguments = None THEN Throw(TypeErrorUndefined, <<>>, <<>>)
  ELSE
    LET args == Val(arguments)
        action == args.action
    IN IF action = Some(<<"copy">>) /\ ~TruthyStr(args.text)
         THEN Return(Failure(<<"(x) ", "Text is required for copy action">>), <<>>, <<>>)
         ELSE
           LET c == Chain(clipboardCommands(args), outs)
           IN IF c.threw
                THEN Return(Failure(<<"(x) ", "Clipboard action failed: ">> \o c.message),
                            c.invocations, <<>>)
                ELSE IF action = None
                  \* action.toUpperCase() of undefined throws inside the try
                  THEN Return(Failure(<<"(x) ", "Clipboard action failed: ">>
                                        \o TypeErrorNoMethod),
                              c.invocations, <<>>)
                  ELSE Return(Success(<<"(clipboard) ", "Clipboard ">>
                                        \o toUpperCase(Val(action))
                                        \o (IF TruthyStr(args.text)
                                              THEN <<": \"">> \o Val(args.text) \o <<"\"">>
                                              ELSE <<>>)
                                        \o (IF args.index # None
                                              THEN <<" (item ", ToString(Val(args.index)), ")">>
                                              ELSE <<>>)
                                        \o <<"\n\n(ok) Action completed successfully">>),
                              c.invocations, <<>>)

cmd == <<"c", "m", "d">>
shift == <<"s", "h", "i", "f", "t">>
alt == <<"a", "l", "t">>
ctrl == <<"c", "t", "r", "l">>

\* the tokens handleRaycastShortcut recognises as modifiers
ModifierTokens == {cmd, shift, alt, ctrl}

\* custom_key.toLowerCase().split('+').map(k => k.trim())
customKeys(custom_key) ==
  LET parts == Split(toLowerCase(custom_key), "+")
  IN [i \in DOMAIN parts |-> Trim(parts[i])]

RECURSIVE modifierNames(_)
modifierNames(modifiers) ==
  IF modifiers = <<>> THEN <<>>
  ELSE <<CASE Head(modifiers) = cmd -> "command down"
           [] Head(modifiers) = shift -> "shift down"
           [] Head(modifiers) = alt -> "option down"
           [] OTHER -> "control down", ",", " ">>
         \o modifierNames(Tail(modifiers))

modifierStringInInputOrder(modifiers) == SliceEnd(modifierNames(modifiers), 2)

\* the modifier list of the keystroke, built in the order of the four tests
modifierString(modifiers) ==
  SliceEnd((IF Includes(modifiers, cmd) THEN <<"command down", ",", " ">> ELSE <<>>)
             \o (IF Includes(modifiers, shift) THEN <<"shift down", ",", " ">> ELSE <<>>)
             \o (IF Includes(modifiers, alt) THEN <<"option down", ",", " ">> ELSE <<>>)
             \o (IF Includes(modifiers, ctrl) THEN <<"control down", ",", " ">> ELSE <<>>),
           2)

\* the AppleScript a custom_key resolves to
shortcutScript(custom_key) ==
  LET keys == customKeys(custom_key)
      modifiers == Filter(keys, ModifierTokens)
      key == FindNotIn(keys, ModifierTokens)
  IN <<"tell application \"System Events\" to keystroke \"">> \o Interp(key)
       \o <<"\" using {">> \o modifierString(modifiers) \o <<"}">>

shortcutsMisrouted(shortcut) ==
  CASE shortcut = <<"calculator">> ->
         Some(<<"raycast://extensions/raycast/emoji-symbols/emoji-symbols">>)
    [] shortcut \in {<<"main-window">>, <<"clipboard-history">>, <<"emoji">>,
                     <<"screenshot">>, <<"timer">>} -> Some(<<"raycast://">>)
    [] OTHER -> None

\* shortcuts[shortcut]: the table entry, an inherited member, or undefined
shortcuts(shortcut) ==
  CASE shortcut = <<"main-window">> -> Some(<<"raycast://">>)
    [] shortcut = <<"clipboard-history">> ->
         Some(<<"raycast://extensions/raycast/clipboard-history/clipboard-history">>)
    [] shortcut = <<"emoji">> ->
         Some(<<"raycast://extensions/raycast/emoji-symbols/emoji-symbols">>)
    [] shortcut = <<"calculator">> ->
         Some(<<"raycast://extensions/raycast/calculator/calculator">>)
    [] shortcut = <<"screenshot">> ->
         Some(<<"raycast://extensions/raycast/screenshot/screenshot">>)
    [] shortcut = <<"timer">> -> Some(<<"raycast://extensions/raycast/timer/timer">>)
    [] shortcut \in PrototypeKeys -> Some(InheritedText)
    [] OTHER -> None

handleRaycastShortcut(arguments, outs) ==
  IF arguments = None THEN Throw(TypeErrorUndefined, <<>>, <<>>)
  ELSE
    LET args == Val(arguments)
        shortcut == args.shortcut
        custom_key == args.custom_key
        unknown == /\ ~TruthyStr(custom_key)
                   /\ TruthyStr(shortcut)
                   /\ shortcuts(Val(shortcut)) = None
        cmds == IF TruthyStr(custom_key)
                  THEN << <<"osascript -e '">> \o shortcutScript(Val(custom_key))
                            \o <<"'">> >>
                  ELSE IF TruthyStr(shortcut) /\ ~unknown
                    THEN << triggerRaycastURL(Val(shortcuts(Val(shortcut)))) >>
                    ELSE <<>>
        c == Chain(cmds, outs)
    IN IF unknown
         THEN Return(Failure(<<"(x) ", "Unknown shortcut: ">> \o Val(shortcut)),
                     <<>>, <<>>)
         ELSE IF c.threw
           THEN Return(Failure(<<"(x) ", "Shortcut execution failed: ">> \o c.message),
                       c.invocations, <<>>)
           ELSE Return(Success(<<"(keyboard) ", "Shortcut Triggered: ">>
                                 \o (IF TruthyStr(shortcut) THEN Val(shortcut)
                                     ELSE Interp(custom_key))
                                 \o <<"\n\n(ok) Shortcut executed successfully">>),
                       c.invocations, <<>>)

toggleScript ==
  <<"if application \"Raycast\" is running then tell application \"System Events\" if (name of processes) contains \"Raycast\" then tell application \"Raycast\" to set visible to not visible else tell application \"Raycast\" to activate end if end tell else tell application \"Raycast\" to activate end if">>

\* the script of a window action; undefined for an action outside the switch
windowScript(action) ==
  CASE action = Some(<<"show">>) -> Some(<<"tell application \"Raycast\" to activate">>)
    [] action = Some(<<"hide">>) ->
         Some(<<"tell application \"Raycast\" to set visible to false">>)
    [] action = Some(<<"toggle">>) -> Some(toggleScript)
    [] action = Some(<<"focus">>) -> Some(<<"tell application \"Raycast\" to activate">>)
    [] OTHER -> None

handleRaycastWindow(arguments, outs) ==
  IF arguments = None THEN Throw(TypeErrorUndefined, <<>>, <<>>)
  ELSE
    LET args == Val(arguments)
        action == args.action
        script == windowScript(action)
    IN IF script = None
         THEN Return(Failure(<<"(x) ", "Window action failed: ",
                               "Unknown window action: ">> \o Interp(action)),
                     <<>>, <<>>)
         ELSE
           LET c == Chain(<< <<"osascript -e '">> \o Val(script) \o <<"'">> >>, outs)
           IN IF c.threw
                THEN Return(Failure(<<"(x) ", "Window action failed: ">> \o c.message),
                            c.invocations, <<>>)
                ELSE Return(Success(<<"(window) ", "Window ">> \o toUpperCase(Val(action))
                                      \o <<"\n\n(ok) Window action completed successfully">>),
                            c.invocations, <<>>)

\* systemCommands[func]: the table entry, an inherited member (a function,
\* not a string), or undefined
systemCommands(func) ==
  CASE func = <<"sleep">> -> Some(<<"pmset sleepnow">>)
    [] func = <<"restart">> -> Some(<<"sudo shutdown -r now">>)
    [] func = <<"shutdown">> -> Some(<<"sudo shutdown -h now">>)
    [] func = <<"lock">> ->
         Some(<<"/System/Library/CoreServices/Menu\\ Extras/User.menu/Contents/Resources/CGSession -suspend">>)
    [] func = <<"logout">> ->
         Some(<<"osascript -e \"tell application \\\"System Events\\\" to log out\"">>)
    [] func = <<"empty-trash">> ->
         Some(<<"osascript -e \"tell application \\\"Finder\\\" to empty the trash\"">>)
    [] func = <<"eject-all">> ->
         Some(<<"osascript -e \"tell application \\\"Finder\\\" to eject the disks\"">>)
    [] func \in PrototypeKeys -> Some(InheritedText)
    [] OTHER -> None

ConfirmedFunctionsWithoutLogout == {<<"restart">>, <<"shutdown">>, <<"empty-trash">>}

\* the functions handleRaycastSystem asks a confirmation for
ConfirmedFunctions == {<<"restart">>, <<"shutdown">>, <<"logout">>, <<"empty-trash">>}

\* the command that shows the confirmation dialog for func
confirmCommand(func) ==
  <<"osascript -e '", "tell application \"System Events\" display dialog \"Are you sure you want to ">>
    \o func
    \o <<"?\" buttons {\"Cancel\", \"OK\"} default button \"Cancel\" if button returned of result is \"OK\" then return \"confirmed\" else return \"cancelled\" end if end tell",
         "'">>

confirmDeniedOnEmpty(stdout) == Trim(stdout) = <<>>

confirmDeniedIgnoringCase(stdout) == Trim(stdout) \notin {<<"confirmed">>, <<"Confirmed">>}

\* confirmResult.stdout.trim() !== 'confirmed'
confirmDenied(stdout) == Trim(stdout) # <<"confirmed">>

handleRaycastSystemDialogUncaught(arguments, outs) ==
  IF arguments = None THEN Throw(TypeErrorUndefined, <<>>, <<>>)
  ELSE
    LET args == Val(arguments)
        func == Interp(args.function)
        confirm == IF args.confirm = None THEN TRUE ELSE Val(args.confirm)
        command == systemCommands(func)
        ask == confirm /\ func \in ConfirmedFunctions
        dialog == Invocation("exec", confirmCommand(func), outs[1])
        run == Invocation("exec", Val(command), IF ask THEN outs[2] ELSE outs[1])
        executed == Return(Success(<<"(wrench) ", "System ">> \o toUpperCase(func)
                                     \o <<"\n\n(ok) System function executed successfully">>),
                           IF ask THEN <<dialog, run>> ELSE <<run>>, <<>>)
        failed(message, inv) ==
          Return(Failure(<<"(x) ", "System function failed: ">> \o message), inv, <<>>)
    IN IF command = None
         THEN Return(Failure(<<"(x) ", "Unknown system function: ">> \o func), <<>>, <<>>)
         ELSE IF ask /\ ~dialog.outcome.ok
           THEN Return(Success(<<"(x) ", "System ">> \o func
                                 \o <<" ", "cancelled", " by user">>),
                       <<dialog>>, <<>>)
         ELSE IF ask /\ confirmDenied(dialog.outcome.stdout)
           THEN Return(Success(<<"(x) ", "System ">> \o func
                                 \o <<" ", "cancelled", " by user">>),
                       <<dialog>>, <<>>)
         ELSE IF func \in PrototypeKeys
           THEN failed(TypeErrorCommand, <<>>)
         ELSE IF ~run.outcome.ok
           THEN failed(run.outcome.message, IF ask THEN <<dialog, run>> ELSE <<run>>)
         ELSE executed

handleRaycastSystem(arguments, outs) ==
  IF arguments = None THEN Throw(TypeErrorUndefined, <<>>, <<>>)
  ELSE
    LET args == Val(arguments)
        func == Interp(args.function)
        confirm == IF args.confirm = None THEN TRUE ELSE Val(args.confirm)
        command == systemCommands(func)
        ask == confirm /\ func \in ConfirmedFunctions
        dialog == Invocation("exec", confirmCommand(func), outs[1])
        run == Invocation("exec", Val(command), IF ask THEN outs[2] ELSE outs[1])
        executed == Return(Success(<<"(wrench) ", "System ">> \o toUpperCase(func)
                                     \o <<"\n\n(ok) System function executed successfully">>),
                           IF ask THEN <<dialog, run>> ELSE <<run>>, <<>>)
        failed(message, inv) ==
          Return(Failure(<<"(x) ", "System function failed: ">> \o message), inv, <<>>)
    IN IF command = None
         THEN Return(Failure(<<"(x) ", "Unknown system function: ">> \o func), <<>>, <<>>)
         ELSE IF ask /\ ~dialog.outcome.ok
           THEN failed(dialog.outcome.message, <<dialog>>)
         ELSE IF ask /\ confirmDenied(dialog.outcome.stdout)
           THEN Return(Success(<<"(x) ", "System ">> \o func
                                 \o <<" ", "cancelled", " by user">>),
                       <<dialog>>, <<>>)
         ELSE IF func \in PrototypeKeys
           THEN failed(TypeErrorCommand, <<>>)
         ELSE IF ~run.outcome.ok
           THEN failed(run.outcome.message, IF ask THEN <<dialog, run>> ELSE <<run>>)
         ELSE executed

ToolNames ==
  {"raycast_search", "raycast_open", "raycast_clipboard", "raycast_shortcut",
   "raycast_window", "raycast_system"}

unknownToolNoFlag(name) == Return(Success(<<"Unknown tool: ", name>>), <<>>, <<>>)

\* the default branch of handleToolCall's switch
unknownTool(name) == Return(Failure(<<"Unknown tool: ", name>>), <<>>, <<>>)

handleToolCall(name, arguments, outs) ==
  LET r == CASE name = "raycast_search" -> handleRaycastSearch(arguments, outs)
             [] name = "raycast_open" -> handleRaycastOpen(arguments, outs)
             [] name = "raycast_clipboard" -> handleRaycastClipboard(arguments, outs)
             [] name = "raycast_shortcut" -> handleRaycastShortcut(arguments, outs)
             [] name = "raycast_window" -> handleRaycastWindow(arguments, outs)
             [] name = "raycast_system" -> handleRaycastSystem(arguments, outs)
             [] OTHER -> unknownTool(name)
  IN IF r.threw
       THEN Return(Failure(<<"Error executing ", name, ": ">> \o r.error),
                   r.invocations, r.authCalls)
       ELSE r

-----------------------------------------------------------------------------
(* auth.ts *)

\* a call of a method of the Auth collaborator
AuthCall(method, service) == [method |-> method, service |-> service]

\* serviceMap[service]: the key of the service in the configuration
serviceMap(service) ==
  CASE service = <<"raycast">> -> Some("raycastApiKey")
    [] service = <<"github">> -> Some("githubToken")
    [] service = <<"notion">> -> Some("notionToken")
    [] service = <<"figma">> -> Some("figmaToken")
    [] service = <<"slack">> -> Some("slackToken")
    [] service = <<"linear">> -> Some("linearToken")
    [] service = <<"jira">> -> Some("jiraToken")
    [] OTHER -> None

\* an inherited member of serviceMap names no key of the configuration
getCredential(cfg, service) ==
  IF IsSome(serviceMap(service)) THEN cfg[Val(serviceMap(service))] ELSE None

hasCredentialsAssumed(cfg, service) == TRUE

hasCredentials(cfg, service) == TruthyStr(getCredential(cfg, service))

oauthUrls(service) ==
  CASE service = <<"github">> ->
         Some(<<"https://github.com/login/oauth/authorize?client_id=YOUR_CLIENT_ID&scope=repo,user">>)
    [] service = <<"notion">> ->
         Some(<<"https://api.notion.com/v1/oauth/authorize?client_id=YOUR_CLIENT_ID&response_type=code">>)
    [] service = <<"figma">> ->
         Some(<<"https://www.figma.com/oauth?client_id=YOUR_CLIENT_ID&redirect_uri=YOUR_REDIRECT&scope=files:read">>)
    [] service = <<"slack">> ->
         Some(<<"https://slack.com/oauth/v2/authorize?client_id=YOUR_CLIENT_ID&scope=channels:read,chat:write">>)
    [] service = <<"linear">> ->
         Some(<<"https://linear.app/oauth/authorize?client_id=YOUR_CLIENT_ID&response_type=code">>)
    [] service = <<"jira">> ->
         Some(<<"https://auth.atlassian.com/authorize?audience=api.atlassian.com&client_id=YOUR_CLIENT_ID">>)
    [] service \in PrototypeKeys -> Some(InheritedText)
    [] OTHER -> None

\* initiateOAuth: throws for a service without URL, else opens the URL
initiateOAuth(service, outs) ==
  LET url == oauthUrls(service)
  IN IF url = None
       THEN [threw |-> TRUE, message |-> <<"Unsupported OAuth service: ">> \o service,
             url |-> <<>>, invocations |-> <<>>]
       ELSE LET c == Chain(<< <<"open \"">> \o Val(url) \o <<"\"">> >>, outs)
            IN [threw |-> c.threw, message |-> c.message, url |-> Val(url),
                invocations |-> c.invocations]

\* the URL the validator of a service fetches, undefined without validator
validators(service) ==
  CASE service = <<"github">> -> Some(<<"https://api.github.com/user">>)
    [] service = <<"notion">> -> Some(<<"https://api.notion.com/v1/users/me">>)
    [] service = <<"figma">> -> Some(<<"https://api.figma.com/v1/me">>)
    [] OTHER -> None

validateCredentials(cfg, service, outs) ==
  LET token == getCredential(cfg, service)
      call == Invocation("fetch", Val(validators(service)), outs[1])
  IN IF ~TruthyStr(token)
       THEN [valid |-> FALSE, user |-> None, error |-> Some(<<"No credentials found">>),
             invocations |-> <<>>]
       ELSE IF validators(service) = None
         THEN [valid |-> FALSE, user |-> None,
               error |-> Some(<<"Validation not implemented for this service">>),
               invocations |-> <<>>]
       ELSE IF ~call.outcome.ok
         THEN [valid |-> FALSE, user |-> None, error |-> Some(call.outcome.message),
               invocations |-> <<call>>]
       ELSE [valid |-> TRUE, user |-> Some(call.outcome.stdout), error |-> None,
             invocations |-> <<call>>]

getSetupInstructions(service) ==
  CASE service = <<"raycast">> -> <<"(rocket) Raycast API Setup: ... export RAYCAST_API_KEY">>
    [] service = <<"github">> -> <<"(octopus) GitHub Token Setup: ... export GITHUB_TOKEN">>
    [] service = <<"notion">> -> <<"(memo) Notion Integration Setup: ... export NOTION_TOKEN">>
    [] service = <<"figma">> -> <<"(palette) Figma Token Setup: ... export FIGMA_TOKEN">>
    [] service = <<"slack">> -> <<"(speech) Slack App Setup: ... export SLACK_TOKEN">>
    [] service \in PrototypeKeys -> InheritedText
    [] OTHER -> <<"Setup instructions not available for ">> \o service

AuditedServices == << <<"raycast">>, <<"github">>, <<"notion">>, <<"figma">>, <<"slack">> >>

RECURSIVE auditLines(_, _)
auditLines(cfg, services) ==
  IF services = <<>> THEN <<>>
  ELSE LET service == Head(services)
           hasAuth == hasCredentials(cfg, service)
       IN (IF hasAuth THEN <<"(ok) ">> ELSE <<"(x) ">>) \o toUpperCase(service)
            \o (IF hasAuth THEN <<": Configured", "\n">> ELSE <<": Missing", "\n">>)
            \o (IF hasAuth THEN <<>>
                ELSE <<"   (hint) Run: raycast_auth setup ">> \o service \o <<"\n">>)
            \o auditLines(cfg, Tail(services))

auditIntegrations(cfg) ==
  <<"(search) Integration Audit Report:\n", "\n">> \o auditLines(cfg, AuditedServices)
    \o <<"\n(rocket) Potential Integration Opportunities:", "\n",
         "Linear, Jira, Confluence, Miro, AWS, Vercel">>

-----------------------------------------------------------------------------
(* index.ts *)

\* the error response of setup, validate and oauth without a service
serviceRequiredNoFlag(what) ==
  Return(Success(<<"(x) ", "Service parameter required for ", what>>), <<>>, <<>>)

serviceRequired(what) ==
  Return(Failure(<<"(x) ", "Service parameter required for ", what>>), <<>>, <<>>)

handleAuthTool(arguments, outs, cfg) ==
  IF arguments = None THEN Throw(TypeErrorUndefined, <<>>, <<>>)
  ELSE
    LET args == Val(arguments)
        action == args.action
        service == args.service
        failed(message, inv, auth) ==
          Return(Failure(<<"(x) ", "Auth action failed: ">> \o message), inv, auth)
    IN CASE action = Some(<<"setup">>) ->
              IF ~TruthyStr(service)
                THEN serviceRequired("setup")
                ELSE Return(Success(getSetupInstructions(Val(service))), <<>>,
                            <<AuthCall("getSetupInstructions", Val(service))>>)
         [] action = Some(<<"validate">>) ->
              IF ~TruthyStr(service)
                THEN serviceRequired("validation")
                ELSE LET validation == validateCredentials(cfg, Val(service), outs)
                     IN Return(Success((IF validation.valid THEN <<"(ok)">> ELSE <<"(x)">>)
                                         \o <<" ">> \o toUpperCase(Val(service))
                                         \o <<" Credentials: ">>
                                         \o (IF validation.valid THEN <<"Valid">>
                                             ELSE <<"Invalid">>)
                                         \o <<"\n\n">>
                                         \o (IF TruthyStr(validation.error)
                                               THEN <<"Error: ">> \o Val(validation.error)
                                               ELSE <<>>)
                                         \o (IF TruthyStr(validation.user)
                                               THEN <<"\nUser: ">> \o Val(validation.user)
                                               ELSE <<>>)),
                               validation.invocations,
                               <<AuthCall("validateCredentials", Val(service))>>)
         [] action = Some(<<"audit">>) ->
              Return(Success(auditIntegrations(cfg)), <<>>,
                     <<AuthCall("auditIntegrations", <<>>)>>)
         [] action = Some(<<"oauth">>) ->
              IF ~TruthyStr(service)
                THEN serviceRequired("OAuth")
                ELSE LET o == initiateOAuth(Val(service), outs)
                         auth == <<AuthCall("initiateOAuth", Val(service))>>
                     IN IF o.threw THEN failed(o.message, o.invocations, auth)
                        ELSE Return(Success(<<"(lock) OAuth Flow Initiated for ">>
                                                \o toUpperCase(Val(service))
                                                \o <<"\n\n(globe) Opening browser: ">>
                                                \o o.url
                                                \o <<"\n\n(memo) Complete the authorization and copy the token to your environment variables.">>),
                                      o.invocations, auth)
         [] OTHER ->
              Return(Failure(<<"(x) ", "Unknown auth action: ">> \o Interp(action)),
                     <<>>, <<>>)

\* what cat package.json can print
ManifestComplete == <<"{name,title,description,author,license}">>
ManifestInRaycast == <<"{name,raycast:{title,description,author,license}}">>
ManifestPartial == <<"{name,title}">>
ManifestBroken == <<"{name">>

RequiredFields == <<"name", "title", "description", "author", "license">>

\* JSON.parse of a manifest, as the set of required fields that
\* packageJson or packageJson.raycast holds; undefined when it throws
JSONparse(text) ==
  CASE text = ManifestComplete -> Some({"name", "title", "description", "author", "license"})
    [] text = ManifestInRaycast -> Some({"name", "title", "description", "author", "license"})
    [] text = ManifestPartial -> Some({"name", "title"})
    [] OTHER -> None

RECURSIVE bullets(_)
bullets(fields) ==
  IF fields = <<>> THEN <<>>
  ELSE <<"- ", Head(fields)>> \o (IF Len(fields) > 1 THEN <<"\n">> ELSE <<>>)
         \o bullets(Tail(fields))

handleExtensionsTool(arguments, outs) ==
  IF arguments = None THEN Throw(TypeErrorUndefined, <<>>, <<>>)
  ELSE
    LET args == Val(arguments)
        action == args.action
        failed(c) ==
          Return(Failure(<<"(x) ", "Extension action failed: ">> \o c.message),
                 c.invocations, <<>>)
    IN CASE action = Some(<<"list">>) ->
              LET c == Chain(<< <<"defaults read com.raycast.macos extensions 2>/dev/null || echo \"No extensions configuration found\"">> >>, outs)
              IN IF c.threw THEN failed(c)
                 ELSE Return(Success(<<"(package) Installed Raycast Extensions:\n\n">>
                                       \o (IF outs[1].stdout # <<>> THEN outs[1].stdout
                                           ELSE <<"Unable to read extensions list">>)),
                             c.invocations, <<>>)
         [] action = Some(<<"search">>) ->
              IF ~TruthyStr(args.query)
                THEN Return(Failure(<<"(x) ", "Query parameter required for search">>),
                            <<>>, <<>>)
                ELSE LET c == Chain(<< <<"open \"", "raycast://extensions/store?search=">>
                                         \o encodeURIComponent(args.query) \o <<"\"">> >>,
                                    outs)
                     IN IF c.threw THEN failed(c)
                        ELSE Return(Success(<<"(search) Raycast Store Search: \"">>
                                              \o Val(args.query)
                                              \o <<"\"\n\n(ok) Store opened with search results">>),
                                    c.invocations, <<>>)
         [] action = Some(<<"install">>) ->
              IF ~TruthyStr(args.extension_id)
                THEN Return(Failure(<<"(x) ", "Extension ID required for installation">>),
                            <<>>, <<>>)
                ELSE LET c == Chain(<< <<"open \"", "raycast://extensions/store/">>
                                         \o Val(args.extension_id) \o <<"\"">> >>, outs)
                     IN IF c.threw THEN failed(c)
                        ELSE Return(Success(<<"(inbox) Installing Extension: ">>
                                              \o Val(args.extension_id)
                                              \o <<"\n\n(ok) Extension page opened for installation">>),
                                    c.invocations, <<>>)
         [] action = Some(<<"publish">>) ->
              IF ~TruthyStr(args.publish_path)
                THEN Return(Failure(<<"(x) ", "Publish path required">>), <<>>, <<>>)
                ELSE
                  LET c == Chain(<< <<"cat \"">> \o Val(args.publish_path)
                                      \o <<"/package.json", "\"">> >>, outs)
                      packageJson == JSONparse(outs[1].stdout)
                      missingFields == Filter(RequiredFields,
                                              {f \in {"name", "title", "description",
                                                      "author", "license"} :
                                                 f \notin Val(packageJson)})
                  IN IF c.threw
                       THEN Return(Failure(<<"(x) ", "Extension validation failed: ">>
                                             \o c.message
                                             \o <<"\n\nEnsure the path contains a valid Raycast extension with package.json">>),
                                   c.invocations, <<>>)
                     ELSE IF packageJson = None
                       THEN Return(Failure(<<"(x) ", "Extension validation failed: ",
                                             "Unexpected end of JSON input",
                                             "\n\nEnsure the path contains a valid Raycast extension with package.json">>),
                                   c.invocations, <<>>)
                     ELSE IF Len(missingFields) > 0
                       THEN Return(Failure(<<"(x) ", "Extension validation failed. Missing required fields:\n\n">>
                                             \o bullets(missingFields)
                                             \o <<"\n\n(books) See: https://developers.raycast.com/extension-manifest">>),
                                   c.invocations, <<>>)
                     ELSE Return(Success(<<"(rocket) Extension Publishing Guide",
                                           "1. Ensure your extension is in: ">>
                                           \o Val(args.publish_path)
                                           \o <<"\n(link) Publishing Documentation: https://developers.raycast.com/store/publishing">>),
                                 c.invocations, <<>>)
         [] action = Some(<<"update">>) ->
              LET c == Chain(<< <<"open \"raycast://preferences/extensions\"">> >>, outs)
              IN IF c.threw THEN failed(c)
                 ELSE Return(Success(<<"(up) Extension Updates\n\n(ok) Extensions preferences opened. Check for available updates.">>),
                             c.invocations, <<>>)
         [] OTHER ->
              Return(Failure(<<"(x) ", "Unknown extension action: ">> \o Interp(action)),
                     <<>>, <<>>)

\* a string inside JSON.stringify: quotes and backslashes are escaped
JSONstring(str) ==
  <<"\"">> \o [i \in DOMAIN str |-> CASE str[i] = "\"" -> "\\\""
                                      [] str[i] = "\\" -> "\\\\"
                                      [] OTHER -> str[i]]
    \o <<"\"">>

\* steps.map(...) of the create action, as the JSON text of the steps
RECURSIVE stepsJson(_, _)
stepsJson(steps, index) ==
  IF steps = <<>> THEN <<>>
  ELSE <<"{\"id\": \"step_", ToString(index + 1), "\", \"type\": ">>
         \o JSONstring(Head(steps).type)
         \o <<", \"action\": ">> \o JSONstring(Head(steps).action)
         \o <<", \"parameters\": {}}">>
         \o (IF Len(steps) > 1 THEN <<", ">> ELSE <<>>)
         \o stepsJson(Tail(steps), index + 1)

\* what the GitHub API can answer
UserBody == <<"{\"login\":\"octo\",\"name\":\"Octo Cat\"}">>
BadCredentialsBody == <<"{\"message\":\"Bad credentials\"}">>

\* user.login and user.name of the parsed answer
userField(body, field) ==
  IF body = UserBody
    THEN (IF field = "login" THEN <<"octo">> ELSE <<"Octo Cat">>)
    ELSE <<"undefined">>

\* predefinedWorkflows[name]: a workflow of the table, an inherited member
\* (a function that runs nothing), or undefined
predefinedWorkflows(name) ==
  CASE name = <<"system-sleep">> -> Some("system-sleep")
    [] name = <<"empty-trash">> -> Some("empty-trash")
    [] name = <<"github-status">> -> Some("github-status")
    [] name \in PrototypeKeys -> Some("inherited")
    [] OTHER -> None

handleWorkflowsTool(arguments, outs, cfg, now) ==
  IF arguments = None THEN Throw(TypeErrorUndefined, <<>>, <<>>)
  ELSE
    LET args == Val(arguments)
        action == args.action
        name == args.name
        trigger == IF TruthyStr(args.trigger) THEN Val(args.trigger) ELSE <<"manual">>
        failed(message, inv, auth) ==
          Return(Failure(<<"(x) ", "Workflow action failed: ">> \o message), inv, auth)
        executed(result, inv, auth) ==
          Return(Success(<<"(zap) Workflow Executed: \"">> \o Val(name) \o <<"\"\n\n">>
                           \o result), inv, auth)
    IN CASE action = Some(<<"create">>) ->
              IF ~TruthyStr(name) \/ args.steps = None
                THEN Return(Failure(<<"(x) ", "Name and steps required for workflow creation">>),
                            <<>>, <<>>)
                ELSE Return(Success(<<"(wrench) Workflow Created: \"">> \o Val(name)
                                      \o <<"\"\n\n(list) Configuration:\n(json)\n">>
                                      \o <<"{\"name\": ">> \o JSONstring(Val(name))
                                      \o <<", \"trigger\": ">> \o JSONstring(trigger)
                                      \o <<", \"steps\": [">>
                                      \o stepsJson(Val(args.steps), 0)
                                      \o <<"], \"created\": \"", now, "\"}">>
                                      \o <<"\n(json)\n\n(hint) To execute: raycast_workflows execute \"">>
                                      \o Val(name) \o <<"\"\n(link) Trigger: ">> \o trigger),
                            <<>>, <<>>)
         [] action = Some(<<"list">>) ->
              Return(Success(<<"(memo) Raycast Workflows:\n\n(wrench) Quick Actions: System Sleep, Empty Trash, Screenshot\n\n(link) Integrations: GitHub, Notion, Slack\n\n(hint) Create custom workflows with: raycast_workflows create">>),
                     <<>>, <<>>)
         [] action = Some(<<"execute">>) ->
              IF ~TruthyStr(name)
                THEN Return(Failure(<<"(x) ", "Workflow name required for execution">>),
                            <<>>, <<>>)
                ELSE
                  LET workflowFn == predefinedWorkflows(Val(name))
                  IN CASE workflowFn = None ->
                            Return(Failure(<<"(x) ", "Workflow not found: \"">> \o Val(name)
                                             \o <<"\"\n\nAvailable workflows:\n- system-sleep\n- empty-trash\n- github-status">>),
                                   <<>>, <<>>)
                       [] workflowFn = Some("system-sleep") ->
                            LET c == Chain(<< <<"pmset sleepnow">> >>, outs)
                            IN IF c.threw THEN failed(c.message, c.invocations, <<>>)
                               ELSE executed(<<"(zzz) System sleep initiated">>,
                                             c.invocations, <<>>)
                       [] workflowFn = Some("empty-trash") ->
                            LET c == Chain(<< <<"osascript -e \"tell application \\\"Finder\\\" to empty the trash\"">> >>, outs)
                            IN IF c.threw THEN failed(c.message, c.invocations, <<>>)
                               ELSE executed(<<"(bin) Trash emptied">>, c.invocations, <<>>)
                       [] workflowFn = Some("github-status") ->
                            LET call == Invocation("fetch", <<"https://api.github.com/user">>,
                                                   outs[1])
                            IN IF ~hasCredentials(cfg, <<"github">>)
                                 THEN failed(<<"GitHub credentials not configured">>, <<>>,
                                             <<AuthCall("hasCredentials", <<"github">>)>>)
                               ELSE IF ~call.outcome.ok
                                 THEN failed(call.outcome.message, <<call>>,
                                             <<AuthCall("hasCredentials", <<"github">>),
                                               AuthCall("getCredential", <<"github">>)>>)
                               ELSE executed(<<"(user) GitHub User: ">>
                                               \o userField(call.outcome.stdout, "login")
                                               \o <<" (">>
                                               \o userField(call.outcome.stdout, "name")
                                               \o <<")">>,
                                             <<call>>,
                                             <<AuthCall("hasCredentials", <<"github">>),
                                               AuthCall("getCredential", <<"github">>)>>)
                       [] OTHER ->
                            \* the inherited member is called and returns an object
                            executed(<<"[object Object]">>, <<>>, <<>>)
         [] OTHER ->
              Return(Failure(<<"(x) ", "Unknown workflow action: ">> \o Interp(action)),
                     <<>>, <<>>)

\* the CallToolRequestSchema handler of setupHandlers
callTool(name, arguments, outs, cfg, now) ==
  CASE name = "raycast_auth" -> handleAuthTool(arguments, outs, cfg)
    [] name = "raycast_extensions" -> handleExtensionsTool(arguments, outs)
    [] name = "raycast_workflows" -> handleWorkflowsTool(arguments, outs, cfg, now)
    [] OTHER -> handleToolCall(name, arguments, outs)

-----------------------------------------------------------------------------
(* The requests and the outcomes of the environment the model draws from *)

Opt(S) == {None} \cup {Some(x) : x \in S}

RECURSIVE Join(_, _)
Join(tokens, sep) ==
  IF tokens = <<>> THEN <<>>
  ELSE IF Len(tokens) = 1 THEN Head(tokens)
  ELSE Head(tokens) \o <<sep>> \o Join(Tail(tokens), sep)

\* spellings of the modifiers in a custom_key
ModifierSpellings ==
  {cmd, <<"C", "M", "D">>, shift, <<"S", "h", "i", "f", "t">>,
   <<"A", "l", "t">>, <<" ", "C", "T", "R", "L">>}

\* lists that name all four modifiers, out of order
ScrambledLists ==
  {<<ctrl, alt, shift, cmd>>, <<alt, <<"C", "M", "D">>, ctrl, <<"S", "H", "I", "F", "T">> >>,
   <<shift, ctrl, cmd, alt, shift>>}

\* non-empty lists of modifier spellings, in any order, repeats allowed
ModifierLists ==
  UNION {[1..n -> ModifierSpellings] : n \in 1..MaxMods} \cup ScrambledLists

\* spellings of the key of a custom_key
KeySpellings == {<<"c">>, <<"K">>, <<" ", "f", "1", " ">>}

\* custom_key values of the form <modifiers>+<key>
WellFormedKeys == {Join(m \o <<k>>, "+") : m \in ModifierLists, k \in KeySpellings}

\* custom_key values with no key, an empty key, two keys, or no modifier
MalformedKeys ==
  {cmd, Join(<<shift, cmd>>, "+"), Join(<<cmd, <<>> >>, "+"),
   Join(<<cmd, <<"a">>, <<"b">> >>, "+"), Join(<< <<"a">>, <<"b">> >>, "+"), <<"c">>}

\* a custom_key whose key is a quote character
QuoteKeys == {Join(<<cmd, <<"'">> >>, "+")}

FreeTexts == {<<>>, <<"a">>, <<"a", " ", "\"", ";", "b">>, <<"'", "$">>}

SearchArguments ==
  Opt({[NoArgs EXCEPT !.query = q, !.execute = e] :
         q \in Opt(FreeTexts), e \in Opt(BOOLEAN)})

OpenArguments ==
  Opt({[NoArgs EXCEPT !.command = c, !.extension = e, !.args = a] :
         c \in Opt({<<>>, <<"calculator">>, <<"notes">>, <<"m", "y">>, <<"constructor">>}),
         e \in Opt({<<"e", "x">>}),
         a \in Opt({<<"x", " ", "y">>})})

ClipboardArguments ==
  Opt({[NoArgs EXCEPT !.action = a, !.text = t, !.index = i] :
         a \in Opt({<<"show">>, <<"clear">>, <<"copy">>, <<"paste">>, <<"foo">>}),
         t \in Opt({<<>>, <<"h", "i">>, <<"a", "\"", ";">>}),
         i \in Opt(0..MaxIndex)})

ShortcutNames ==
  {<<"main-window">>, <<"clipboard-history">>, <<"emoji">>, <<"calculator">>,
   <<"screenshot">>, <<"timer">>}

ShortcutArguments ==
  Opt({[NoArgs EXCEPT !.shortcut = sh, !.custom_key = k] :
         sh \in Opt(ShortcutNames \cup {<<>>, <<"nope">>, <<"constructor">>}),
         k \in Opt({<<>>, Join(<<cmd, <<"c">> >>, "+")})}
      \cup
      {[NoArgs EXCEPT !.shortcut = sh, !.custom_key = Some(k)] :
         sh \in Opt({<<"calculator">>}),
         k \in WellFormedKeys \cup MalformedKeys \cup QuoteKeys})

WindowArguments ==
  Opt({[NoArgs EXCEPT !.action = a] :
         a \in Opt({<<"show">>, <<"hide">>, <<"toggle">>, <<"focus">>, <<"foo">>})})

SystemFunctions ==
  {<<"sleep">>, <<"restart">>, <<"shutdown">>, <<"lock">>, <<"logout">>,
   <<"empty-trash">>, <<"eject-all">>}

SystemArguments ==
  Opt({[NoArgs EXCEPT !.function = f, !.confirm = c] :
         f \in Opt(SystemFunctions \cup {<<"format">>, <<"constructor">>}),
         c \in Opt(BOOLEAN)})

AuthArguments ==
  Opt({[NoArgs EXCEPT !.action = a, !.service = sv] :
         a \in Opt({<<"setup">>, <<"validate">>, <<"audit">>, <<"oauth">>, <<"foo">>}),
         sv \in Opt({<<>>, <<"raycast">>, <<"github">>, <<"slack">>, <<"bitbucket">>,
                     <<"constructor">>})})

ExtensionsArguments ==
  Opt({[NoArgs EXCEPT !.action = a, !.query = q, !.extension_id = e,
                      !.publish_path = pth] :
         a \in Opt({<<"list">>, <<"install">>, <<"uninstall">>, <<"update">>,
                    <<"search">>, <<"publish">>}),
         q \in Opt({<<"a", " ", "\"">>}),
         e \in Opt({<<"e", "x">>, <<"x", "\"", ";">>}),
         pth \in Opt({<<"/", "e">>})})

WorkflowSteps ==
  {<<>>, <<[type |-> <<"command">>, action |-> <<"open">>, parameters |-> None]>>}

WorkflowsArguments ==
  Opt({[NoArgs EXCEPT !.action = a, !.name = n, !.steps = st, !.trigger = tr] :
         a \in Opt({<<"create">>, <<"list">>, <<"execute">>, <<"edit">>, <<"delete">>}),
         n \in Opt({<<>>, <<"system-sleep">>, <<"empty-trash">>, <<"github-status">>,
                    <<"my-flow">>, <<"constructor">>}),
         st \in Opt(WorkflowSteps),
         tr \in Opt({<<"hotkey">>})})

\* tool names that no handler is registered for
UnknownNames == {"raycast_foo", "Raycast_Search", "raycast_searchs", ""}

\* outcomes of the calls of a handler's chain, one per position
PlainOuts(n) == [1..n -> PlainOutcomes]

SystemOuts == {<<d, r>> : d \in DialogOutcomes \cup PlainOutcomes, r \in PlainOutcomes}

FetchOutcomes ==
  {Resolved(UserBody), Resolved(BadCredentialsBody),
   Rejected("ECONNREFUSED", FALSE, <<"fetch failed">>)}

ExtensionsOutcomes ==
  PlainOutcomes \cup {Resolved(ManifestComplete), Resolved(ManifestInRaycast),
                      Resolved(ManifestPartial), Resolved(ManifestBroken)}

\* outcomes of executeRaycastCommand's call, which sets the timeout option
TimedOutcomes ==
  {Resolved(<<"o", "k">>), ExitFailure, SpawnFailure, ErrnoTimedOut, KilledOnTimeout,
   SilentFailure}

Times == {"2025-01-01T00:00:00.000Z", "2025-01-02T00:00:00.000Z"}

NoCredentials ==
  [raycastApiKey |-> None, raycastTeamId |-> None, githubToken |-> None,
   notionToken |-> None, figmaToken |-> None, slackToken |-> None,
   linearToken |-> None, jiraToken |-> None]

\* the configurations the server is constructed with
Configs ==
  {NoCredentials,
   [NoCredentials EXCEPT !.githubToken = Some(<<"ghp_token">>)],
   [NoCredentials EXCEPT !.githubToken = Some(<<"ghp_token">>),
                         !.slackToken = Some(<<"xoxb_token">>),
                         !.raycastApiKey = Some(<<>>)]}

-----------------------------------------------------------------------------
(* The state machine *)

\* no request is being handled
Idle == request = None /\ execResult = None

Init ==
  /\ request = None
  /\ response = None
  /\ invocations = <<>>
  /\ authCalls = <<>>
  /\ execResult = None
  /\ config \in Configs
  /\ lastCreated = None

\* the handler awaits an invocation that never settles: the last one it
\* started
Hangs(r) ==
  /\ r.invocations # <<>>
  /\ r.invocations[Len(r.invocations)].outcome = NeverExits

\* the CallTool handler answers one request with the handler's return r, or
\* stays at the await that never settles
Answer(name, arguments, r) ==
  /\ Idle
  /\ request' = Some([name |-> name, arguments |-> arguments])
  /\ response' = IF Hangs(r) THEN None ELSE Some(r.response)
  /\ invocations' = r.invocations
  /\ authCalls' = r.authCalls
  /\ UNCHANGED <<config, execResult>>

\* the CallTool handler handles one request to its response
Handle(name, arguments, outs, now) ==
  /\ Answer(name, arguments, callTool(name, arguments, outs, config, now))
  /\ UNCHANGED lastCreated

Search ==
  \E a \in SearchArguments, outs \in PlainOuts(2), now \in Times :
    Handle("raycast_search", a, outs, now)

Open ==
  \E a \in OpenArguments, outs \in PlainOuts(1), now \in Times :
    Handle("raycast_open", a, outs, now)

Clipboard ==
  \E a \in ClipboardArguments, outs \in PlainOuts(3), now \in Times :
    Handle("raycast_clipboard", a, outs, now)

Shortcut ==
  \E a \in ShortcutArguments, outs \in PlainOuts(1), now \in Times :
    Handle("raycast_shortcut", a, outs, now)

Window ==
  \E a \in WindowArguments, outs \in PlainOuts(1), now \in Times :
    Handle("raycast_window", a, outs, now)

System ==
  \E a \in SystemArguments, outs \in SystemOuts, now \in Times :
    Handle("raycast_system", a, outs, now)

Auth ==
  \E a \in AuthArguments, o \in PlainOutcomes \cup FetchOutcomes, now \in Times :
    Handle("raycast_auth", a, <<o>>, now)

Extensions ==
  \E a \in ExtensionsArguments, o \in ExtensionsOutcomes, now \in Times :
    Handle("raycast_extensions", a, <<o>>, now)

Workflows ==
  \E a \in WorkflowsArguments, o \in PlainOutcomes \cup FetchOutcomes, now \in Times :
    Handle("raycast_workflows", a, <<o>>, now)

UnknownTool ==
  \E name \in UnknownNames, a \in Opt({NoArgs}), now \in Times :
    Handle(name, a, <<Resolved(<<>>)>>, now)

\* a caller of tools.js runs a command through executeRaycastCommand
ExecuteRaycastCommand ==
  \E command \in {<<"open -a Raycast">>, <<"osascript -e 'delay 90'">>},
     outcome \in TimedOutcomes :
    /\ Idle
    /\ execResult' = Some([command |-> command, outcome |-> outcome,
                           result |-> executeRaycastCommand(command, outcome)])
    /\ UNCHANGED <<request, response, invocations, authCalls, config, lastCreated>>

DeliverForgettingCredentials ==
  /\ response # None \/ execResult # None
  /\ request' = None
  /\ response' = None
  /\ invocations' = <<>>
  /\ authCalls' = <<>>
  /\ execResult' = None
  /\ config' = NoCredentials
  /\ UNCHANGED lastCreated

\* the response is handed to the transport and the request is discarded
Deliver ==
  /\ response # None \/ execResult # None
  /\ request' = None
  /\ response' = None
  /\ invocations' = <<>>
  /\ authCalls' = <<>>
  /\ execResult' = None
  /\ UNCHANGED <<config, lastCreated>>

Next ==
  \/ Search
  \/ Open
  \/ Clipboard
  \/ Shortcut
  \/ Window
  \/ System
  \/ Auth
  \/ Extensions
  \/ Workflows
  \/ UnknownTool
  \/ ExecuteRaycastCommand
  \/ Deliver

Spec == Init /\ [][Next]_vars

\* the event loop runs whatever is ready to run
FairSpec == Spec /\ WF_vars(Next)

\* A session of raycast_workflows requests.  lastCreated records the name the
\* caller was last told is created: the success return of the create case
\* (the handler itself stores nothing).
ReportedCreated(arguments, r) ==
  /\ arguments # None
  /\ Val(arguments).action = Some(<<"create">>)
  /\ ~r.threw
  /\ ~r.response.isError

WorkflowsSession ==
  \E a \in WorkflowsArguments, o \in PlainOutcomes \cup FetchOutcomes, now \in Times :
    LET r == callTool("raycast_workflows", a, <<o>>, config, now)
    IN /\ Answer("raycast_workflows", a, r)
       /\ lastCreated' = IF ReportedCreated(a, r) THEN Val(a).name ELSE lastCreated

\* the session may also hold requests to the two other tools the server
\* class handles itself
NextWorkflows ==
  \/ WorkflowsSession
  \/ Auth
  \/ Extensions
  \/ Deliver

SpecWorkflows == Init /\ [][NextWorkflows]_vars

-----------------------------------------------------------------------------
(* Vocabulary of the properties *)

\* a request has been received
Received == request # None
\* a request has been handled and its response is not yet delivered
Handled == request # None /\ response # None
Name == Val(request).name
HasArguments == Val(request).arguments # None
Arguments == Val(Val(request).arguments)
Response == Val(response)

HandledWith(name) == Handled /\ Name = name /\ HasArguments

\* the text of the response contains the fragment
TextContains(fragment) == \E i \in DOMAIN Response.text : Response.text[i] = fragment

\* the commands of the destructive system functions
DestructiveCommands == {Val(systemCommands(f)) : f \in ConfirmedFunctions}

ConfirmationDialogs == {confirmCommand(f) : f \in ConfirmedFunctions}

\* the i-th external invocation of the request follows a confirmation dialog
\* of the same request that returned the affirmative outcome
GateAffirmedBefore(i) ==
  \E j \in 1..(i - 1) :
    /\ invocations[j].command \in ConfirmationDialogs
    /\ invocations[j].outcome.ok
    /\ Trim(invocations[j].outcome.stdout) = <<"confirmed">>

\* the caller suppressed the confirmation with the confirm flag
ConfirmSuppressed == HasArguments /\ Arguments.confirm = Some(FALSE)

RegisteredTools == ToolNames \cup {"raycast_auth", "raycast_extensions", "raycast_workflows"}

-----------------------------------------------------------------------------
(* Properties *)

\* C1: a destructive automation command (restart, shutdown, logout, empty
\* the trash) reaches the executor only after the confirmation dialog of the
\* same request returned "confirmed", unless the caller passed confirm=false;
\* this over every tool, raycast_workflows included.
C1_DestructiveOnlyAfterGate ==
  Handled =>
    \A i \in DOMAIN invocations :
      invocations[i].command \in DestructiveCommands
        => GateAffirmedBefore(i) \/ ConfirmSuppressed

\* the gate of a destructive raycast_system request answered, and answered
\* something other than "confirmed"
GateDenied ==
  /\ HandledWith("raycast_system")
  /\ Arguments.function \in Opt(ConfirmedFunctions) \ {None}
  /\ Arguments.confirm # Some(FALSE)
  /\ Len(invocations) >= 1
  /\ invocations[1].command = confirmCommand(Val(Arguments.function))
  /\ invocations[1].outcome.ok
  /\ Trim(invocations[1].outcome.stdout) # <<"confirmed">>

\* C2: when the gate of restart, shutdown, logout or empty-trash answers
\* anything other than "confirmed", the system command is not executed and
\* the response is non-error with a text containing "cancelled".
C2_DeniedIsCancelled ==
  GateDenied =>
    /\ \A i \in DOMAIN invocations : invocations[i].command \notin DestructiveCommands
    /\ Len(invocations) = 1
    /\ ~Response.raised
    /\ ~Response.isError
    /\ TextContains("cancelled")

C2_Witness ==
  /\ GateDenied
  /\ Arguments.function = Some(<<"shutdown">>)
  /\ invocations[1].outcome.stdout = <<"cancelled", "\n">>
  /\ ~Response.isError

\* C3: a tool name outside the nine registered tools gets the error response
\* "Unknown tool: <name>" and no external invocation or Auth call is made.
C3_UnknownTool ==
  (Handled /\ Name \notin RegisteredTools) =>
    /\ Response = Failure(<<"Unknown tool: ", Name>>)
    /\ invocations = <<>>
    /\ authCalls = <<>>

C3_Witness ==
  /\ Handled
  /\ Name = "raycast_foo"
  /\ Response.isError
  /\ Response.text = <<"Unknown tool: ", "raycast_foo">>

\* C4: the CallTool handler returns a ToolResponse for every request, also
\* one without argument bag, and never raises.
C4_NeverRaises == Handled => ~Response.raised

\* the request lacks a field its tool (or the action of its tool) requires
MissingRequiredField ==
  /\ Handled
  /\ HasArguments
  /\ \/ Name = "raycast_search" /\ Arguments.query = None
     \/ Name \in {"raycast_clipboard", "raycast_window"} /\ Arguments.action = None
     \/ Name = "raycast_system" /\ Arguments.function = None
     \/ Name \in {"raycast_auth", "raycast_extensions", "raycast_workflows"}
          /\ Arguments.action = None
     \/ Name = "raycast_extensions" /\ Arguments.action = Some(<<"search">>)
          /\ Arguments.query = None
     \/ Name = "raycast_extensions" /\ Arguments.action = Some(<<"install">>)
          /\ Arguments.extension_id = None
     \/ Name = "raycast_extensions" /\ Arguments.action = Some(<<"publish">>)
          /\ Arguments.publish_path = None
     \/ Name = "raycast_auth"
          /\ Arguments.action \in {Some(<<"setup">>), Some(<<"validate">>), Some(<<"oauth">>)}
          /\ Arguments.service = None
     \/ Name = "raycast_workflows" /\ Arguments.action = Some(<<"create">>)
          /\ (Arguments.name = None \/ Arguments.steps = None)
     \/ Name = "raycast_workflows" /\ Arguments.action = Some(<<"execute">>)
          /\ Arguments.name = None

\* C5: a request that lacks a required field gets an error response and no
\* external invocation is made for it.
C5_MissingFieldShortCircuits ==
  MissingRequiredField =>
    /\ ~Response.raised
    /\ Response.isError
    /\ invocations = <<>>

\* raycast_auth setup, validate or oauth without service
AuthWithoutService ==
  /\ HandledWith("raycast_auth")
  /\ Arguments.action \in {Some(<<"setup">>), Some(<<"validate">>), Some(<<"oauth">>)}
  /\ Arguments.service = None

\* C6: raycast_auth setup, validate or oauth without a service answers an
\* error naming the missing service parameter (for validate "Service
\* parameter required for validation") and calls neither the Auth
\* collaborator nor the executor.
C6_ServiceRequired ==
  AuthWithoutService =>
    /\ ~Response.raised
    /\ Response.isError
    /\ TextContains("Service parameter required for ")
    /\ Arguments.action = Some(<<"validate">>)
         => Response.text = <<"(x) ", "Service parameter required for ", "validation">>
    /\ invocations = <<>>
    /\ authCalls = <<>>

C6_Witness ==
  /\ AuthWithoutService
  /\ Arguments.action = Some(<<"validate">>)
  /\ Response.isError

\* the actions each tool routes to a branch of its own
ImplementedActions(name) ==
  CASE name = "raycast_auth" -> {<<"setup">>, <<"validate">>, <<"audit">>, <<"oauth">>}
    [] name = "raycast_extensions" ->
         {<<"list">>, <<"search">>, <<"install">>, <<"publish">>, <<"update">>}
    [] name = "raycast_workflows" -> {<<"create">>, <<"list">>, <<"execute">>}
    [] name = "raycast_clipboard" -> {<<"show">>, <<"clear">>, <<"copy">>, <<"paste">>}
    [] name = "raycast_window" -> {<<"show">>, <<"hide">>, <<"toggle">>, <<"focus">>}
    [] OTHER -> {}

\* C7: for auth, extensions, workflows, clipboard and window, an action value
\* outside the actions the tool implements gets an error response.
C7_UnknownActionIsError ==
  (/\ Handled
   /\ HasArguments
   /\ Name \in {"raycast_auth", "raycast_extensions", "raycast_workflows",
                "raycast_clipboard", "raycast_window"}
   /\ Arguments.action # None
   /\ Val(Arguments.action) \notin ImplementedActions(Name))
    => Response.isError

\* the modifiers a list of spellings names
GivenModifiers(m) == {Trim(toLowerCase(m[i])) : i \in DOMAIN m}

\* the names of the given modifiers in the order command, shift, option, control
RECURSIVE InFixedOrder(_, _)
InFixedOrder(order, given) ==
  IF order = <<>> THEN <<>>
  ELSE LET rest == InFixedOrder(Tail(order), given)
       IN IF Head(order)[1] \in given
            THEN <<Head(order)[2]>> \o (IF rest = <<>> THEN <<>> ELSE <<",", " ">> \o rest)
            ELSE rest

ExpectedKeystroke(m, k) ==
  <<"osascript -e '", "tell application \"System Events\" to keystroke \"">>
    \o Trim(toLowerCase(k)) \o <<"\" using {">>
    \o InFixedOrder(<< <<cmd, "command down">>, <<shift, "shift down">>,
                       <<alt, "option down">>, <<ctrl, "control down">> >>,
                    GivenModifiers(m))
    \o <<"}", "'">>

\* C8: for a custom_key <modifiers>+<key>, modifiers from cmd, shift, alt,
\* ctrl in any case and order, the keystroke handed to the executor holds
\* exactly the given modifiers, in the order command, shift, option, control,
\* and the one key (lower-cased and trimmed like every token).
C8_CustomKeyPayload ==
  HandledWith("raycast_shortcut") =>
    \A m \in ModifierLists, k \in KeySpellings :
      Arguments.custom_key = Some(Join(m \o <<k>>, "+"))
        => /\ Len(invocations) = 1
           /\ invocations[1].command = ExpectedKeystroke(m, k)

C8_Witness ==
  /\ HandledWith("raycast_shortcut")
  /\ Arguments.custom_key = Some(Join(<<shift, <<"C", "M", "D">>, <<"K">> >>, "+"))
  /\ Len(invocations) = 1
  /\ invocations[1].command =
       <<"osascript -e '", "tell application \"System Events\" to keystroke \"",
         "k", "\" using {", "command down", ",", " ", "shift down", "}", "'">>

\* raycast_shortcut with a name of the shortcut table and no custom_key
PredefinedShortcut ==
  /\ HandledWith("raycast_shortcut")
  /\ Arguments.shortcut \in Opt(ShortcutNames) \ {None}
  /\ Arguments.custom_key = None

\* C9: a predefined shortcut name without custom_key resolves to the URL
\* trigger of that shortcut, makes exactly that one external invocation, and
\* on its success answers a non-error response whose text contains the name.
C9_PredefinedShortcut ==
  PredefinedShortcut =>
    /\ Len(invocations) = 1
    /\ invocations[1].command
         = <<"open \"">> \o Val(shortcuts(Val(Arguments.shortcut))) \o <<"\"">>
    /\ Arguments.shortcut = Some(<<"calculator">>)
         => invocations[1].command
              = <<"open \"", "raycast://extensions/raycast/calculator/calculator", "\"">>
    /\ Arguments.shortcut = Some(<<"main-window">>)
         => invocations[1].command = <<"open \"", "raycast://", "\"">>
    /\ invocations[1].outcome.ok
         => /\ ~Response.raised
            /\ ~Response.isError
            /\ TextContains(Val(Arguments.shortcut)[1])

C9_Witness ==
  /\ PredefinedShortcut
  /\ Arguments.shortcut = Some(<<"calculator">>)
  /\ invocations[1].outcome.ok
  /\ ~Response.isError
  /\ TextContains("calculator")

\* C10: executeRaycastCommand returns a result for every command; a command
\* that exceeds the timeout yields the result marked as timed out (the
\* explanatory stderr, an empty stdout).
C10_TimeoutIsMarked ==
  execResult # None =>
    /\ ~Val(execResult).result.threw
    /\ Val(execResult).outcome = KilledOnTimeout
         => /\ Val(execResult).result.stderr = TimedOutMessage
            /\ Val(execResult).result.stdout = <<>>

\* an external command that presents a confirmation dialog
IsConfirmationDialog(command) ==
  /\ Len(command) >= 2
  /\ command[2] = confirmCommand(<<>>)[2]

DialogPresented == \E i \in DOMAIN invocations : IsConfirmationDialog(invocations[i].command)

\* a raycast_system request for the function f
SystemRequestFor(f) == HandledWith("raycast_system") /\ Arguments.function = Some(f)

\* C11: for raycast_system the confirmation dialog is presented exactly when
\* the function is restart, shutdown, logout or empty-trash and the confirm
\* flag is not false (absent counts as enabled); for sleep, lock and eject-all
\* no dialog is presented and the table command is the one invocation made,
\* whatever the flag.
C11_DialogExactlyWhenGated ==
  HandledWith("raycast_system") =>
    /\ DialogPresented
         <=> /\ Arguments.function
                  \in {Some(<<"restart">>), Some(<<"shutdown">>), Some(<<"logout">>),
                       Some(<<"empty-trash">>)}
             /\ Arguments.confirm # Some(FALSE)
    /\ \A f \in {<<"sleep">>, <<"lock">>, <<"eject-all">>} :
         Arguments.function = Some(f)
           => /\ Len(invocations) = 1
              /\ invocations[1].command = Val(systemCommands(f))

C11_Witness ==
  /\ SystemRequestFor(<<"logout">>)
  /\ Arguments.confirm = None
  /\ IsConfirmationDialog(invocations[1].command)
  /\ Len(invocations) = 2
  /\ invocations[2].command = Val(systemCommands(<<"logout">>))

\* an execute request for the workflow the caller was last told is created
ExecutesCreated ==
  /\ HandledWith("raycast_workflows")
  /\ Arguments.action = Some(<<"execute">>)
  /\ lastCreated # None
  /\ Arguments.name = lastCreated

\* C12: once a raycast_workflows create request with name N and steps has
\* returned success, a later execute request with the same name N runs the
\* workflow and returns a non-error response (a failure of the workflow's own
\* commands apart).
C12_CreatedWorkflowExecutes ==
  (ExecutesCreated /\ ~TextContains("Workflow action failed: ")) =>
    /\ ~Response.raised
    /\ ~Response.isError
    /\ TextContains("(zap) Workflow Executed: \"")

\* the action enums the input schemas of the two tools declare
DeclaredActions(name) ==
  CASE name = "raycast_extensions" ->
         {<<"list">>, <<"install">>, <<"uninstall">>, <<"update">>, <<"search">>,
          <<"publish">>}
    [] name = "raycast_workflows" ->
         {<<"create">>, <<"list">>, <<"execute">>, <<"edit">>, <<"delete">>}

\* C13: every action of the declared enums of raycast_extensions and
\* raycast_workflows has a handler branch: a request with a declared action is
\* never answered "Unknown extension action" / "Unknown workflow action".
C13_DeclaredActionsRouted ==
  \A name \in {"raycast_extensions", "raycast_workflows"} :
    (HandledWith(name) /\ Arguments.action \in Opt(DeclaredActions(name)) \ {None})
      => /\ ~TextContains("Unknown extension action: ")
         /\ ~TextContains("Unknown workflow action: ")

\* what was handed to the executor: the kind and the payload of each
\* invocation, without its outcome
Payloads(inv) == [i \in DOMAIN inv |-> [via |-> inv[i].via, command |-> inv[i].command]]

IsPrefix(a, b) == Len(a) <= Len(b) /\ \A i \in DOMAIN a : a[i] = b[i]

\* an environment in which every call resolves and the dialog is affirmed
ReferenceOuts == <<Resolved(<<"confirmed", "\n">>), Resolved(<<>>), Resolved(<<>>)>>

\* the payloads the request of the state resolves to when it is handled
\* again, at the time now
ResolvedAgain(now) ==
  Payloads(callTool(Name, Val(request).arguments, ReferenceOuts, config, now).invocations)

\* every invocation of the request resolved, and no dialog was denied
RanToTheEnd ==
  /\ \A i \in DOMAIN invocations : invocations[i].outcome.ok
  /\ ~TextContains("cancelled")

GateAnswered ==
  /\ HandledWith("raycast_system")
  /\ Arguments.function \in Opt(ConfirmedFunctions) \ {None}
  /\ Len(invocations) >= 1
  /\ IsConfirmationDialog(invocations[1].command)
  /\ invocations[1].outcome.ok

\* the value the dialog script returned: osascript prints it followed by a
\* line terminator
ReturnedValue(stdout) ==
  IF stdout # <<>> /\ stdout[Len(stdout)] = "\n" THEN SubSeq(stdout, 1, Len(stdout) - 1)
  ELSE stdout

\* the destructive command of the request was handed to the executor
DestructiveExecuted ==
  \E i \in DOMAIN invocations : invocations[i].command \in DestructiveCommands

\* C15 (as stated): the destructive system command is executed only when the
\* value the confirmation dialog returned is exactly "confirmed"; every other
\* value, a differently-cased or padded one and the empty one included, denies.
C15_ExactMatch ==
  GateAnswered =>
    (DestructiveExecuted <=> ReturnedValue(invocations[1].outcome.stdout) = <<"confirmed">>)

\* C15 (amended): the destructive system command is executed only when the
\* dialog's output with its leading and trailing whitespace removed is exactly
\* "confirmed" (case-sensitive); every other output, a differently-cased one
\* and the empty one included, denies; whitespace around "confirmed" does not.
C15_MatchAfterTrim ==
  GateAnswered =>
    /\ DestructiveExecuted <=> Trim(invocations[1].outcome.stdout) = <<"confirmed">>
    /\ DestructiveExecuted \/ (Len(invocations) = 1 /\ TextContains("cancelled"))

C15_Witness ==
  /\ GateAnswered
  /\ invocations[1].outcome.stdout = <<" ", "confirmed", " ", "\n">>
  /\ DestructiveExecuted
  /\ Len(invocations) = 2

\* the request is waiting for the confirmation dialog to be answered
AwaitingDialog ==
  /\ invocations # <<>>
  /\ IsConfirmationDialog(invocations[Len(invocations)].command)
  /\ invocations[Len(invocations)].outcome = NeverExits

\* C16: every external invocation of a request is bounded by the 60-second
\* timeout: a request that is not waiting for its confirmation dialog to be
\* answered eventually has a response, even when the external command never
\* exits on its own.
C16_EventuallyAnswered == [](Received /\ ~AwaitingDialog => <>(response # None))

\* a raycast_shortcut request without custom_key whose shortcut is a
\* (non-empty) name outside the shortcut table
ShortcutMiss ==
  /\ HandledWith("raycast_shortcut")
  /\ Arguments.custom_key = None
  /\ TruthyStr(Arguments.shortcut)
  /\ Val(Arguments.shortcut) \notin ShortcutNames

\* a raycast_system request whose function is not a name of the command table
SystemMiss ==
  /\ HandledWith("raycast_system")
  /\ Arguments.function # None
  /\ Val(Arguments.function) \notin SystemFunctions

\* C17: a lookup miss is a validation error found before any external
\* invocation: the response is the error "Unknown shortcut: <value>" /
\* "Unknown system function: <value>", and nothing was run or asked.
C17_LookupMissIsValidationError ==
  /\ ShortcutMiss
       => /\ Response = Failure(<<"(x) ", "Unknown shortcut: ">> \o Val(Arguments.shortcut))
          /\ invocations = <<>>
  /\ SystemMiss
       => /\ Response = Failure(<<"(x) ", "Unknown system function: ">>
                                  \o Val(Arguments.function))
          /\ invocations = <<>>

\* the number of tokens of a custom_key that are not modifiers
NonModifierCount(custom_key) ==
  LET keys == customKeys(custom_key)
  IN Cardinality({i \in DOMAIN keys : keys[i] \notin ModifierTokens})

\* C18: a custom_key with no non-modifier token, or with more than one, is
\* rejected as a validation error: the response is an error and no keystroke
\* (no external invocation at all) is performed.
C18_MalformedKeyRejected ==
  (/\ HandledWith("raycast_shortcut")
   /\ TruthyStr(Arguments.custom_key)
   /\ NonModifierCount(Val(Arguments.custom_key)) # 1)
    => /\ Response.isError
       /\ invocations = <<>>

\* the text holds the message as a contiguous part
Carries(text, message) ==
  \E k \in 1..(Len(text) - Len(message) + 1) :
    SubSeq(text, k, k + Len(message) - 1) = message

\* the i-th external invocation of the request, a command handed to the
\* executor, failed
FailedAt(i) ==
  /\ i \in DOMAIN invocations
  /\ invocations[i].via = "exec"
  /\ ~invocations[i].outcome.ok

\* C19: when an external invocation of a request fails, the response is an
\* error response carrying the failure's message, and the failed invocation
\* is the last one made: it is not retried and the rest of a multi-step chain
\* is not performed.
C19_FailureStopsAndIsReported ==
  Handled =>
    \A i \in DOMAIN invocations :
      FailedAt(i)
        => /\ ~Response.raised
           /\ Response.isError
           /\ Carries(Response.text, invocations[i].outcome.message)
           /\ i = Len(invocations)

C19_Witness ==
  /\ HandledWith("raycast_clipboard")
  /\ Arguments.action = Some(<<"paste">>)
  /\ Arguments.index # None
  /\ Len(invocations) = 2
  /\ FailedAt(2)
  /\ invocations[2].outcome = ExitFailure
  /\ Response.isError
  /\ Carries(Response.text, <<"Command failed">>)

\* the characters that end the quoting a payload opens: the shell's double
\* quotes of open, echo and cat, and the shell's single quotes and the
\* AppleScript string of an osascript script
Breakers(opening) ==
  CASE opening \in {"open \"", "echo \"", "cat \""} -> {"\"", "$", "\\"}
    [] opening = "osascript -e '" -> {"'", "\"", "\\"}
    [] OTHER -> {}

\* what the payload embeds between its opening and its closing fragment has
\* no character that ends the quoting (program text is made of fragments,
\* spliced text of single characters)
QuotingHolds(command) ==
  \A j \in 2..(Len(command) - 1) : command[j] \notin Breakers(command[1])

\* C20: the payloads handed to the executor embed free text (search query,
\* clipboard text, command arguments, extension id, custom key) only escaped
\* or encoded for the destination: no character of it ends the quoting of the
\* URL, shell or script payload around it.
C20_FreeTextIsEscaped ==
  Received => \A i \in DOMAIN invocations : QuotingHolds(invocations[i].command)

\* the names of the static command table of raycast_open
CommandNames ==
  {<<"clipboard-history">>, <<"emoji">>, <<"calculator">>, <<"calendar">>, <<"contacts">>,
   <<"reminders">>, <<"notes">>, <<"safari-bookmarks">>}

\* a raycast_open request that names a command
OpensCommand ==
  /\ Received
  /\ Name = "raycast_open"
  /\ HasArguments
  /\ TruthyStr(Arguments.command)

\* the payload the claim gives a command: the table entry, or the generic
\* extensions/<command>, followed by the encoded arguments when given
ExpectedOpen(command, args) ==
  <<"open \"", "raycast://">>
    \o (IF command \in CommandNames THEN Val(commandMap(command))
        ELSE <<"extensions/">> \o command)
    \o (IF TruthyStr(args) THEN <<"?arguments=">> \o encodeURIComponent(args) ELSE <<>>)
    \o <<"\"">>

\* C21: raycast_open never fails on an unknown identifier: a command outside
\* the static command table resolves to raycast://extensions/<command> (with
\* ?arguments=<url-encoded args> when args is given), a command of the table
\* to its entry, and that payload is the one handed to the executor.
C21_OpenFallsBack ==
  OpensCommand =>
    /\ Len(invocations) = 1
    /\ invocations[1].command = ExpectedOpen(Val(Arguments.command), Arguments.args)

\* the outcomes the environment gave the request of the state, in the order
\* of its invocations
ObservedOuts ==
  [i \in 1..3 |-> IF i <= Len(invocations) THEN invocations[i].outcome ELSE Resolved(<<>>)]

\* the response a server that has handled nothing before gives the request
\* of the state, at the time now and with the same outcomes
FirstResponse(now) ==
  callTool(Name, Val(request).arguments, ObservedOuts, config, now).response

\* the response of the state is the one of a first request
HistoryFree == Handled => \E now \in Times : Response = FirstResponse(now)

DialogFailed ==
  /\ HandledWith("raycast_system")
  /\ Len(invocations) >= 1
  /\ IsConfirmationDialog(invocations[1].command)
  /\ ~invocations[1].outcome.ok

\* C23: when the confirmation dialog itself fails, the destructive system
\* command is not executed and the response is the error "System function
\* failed", not the non-error cancelled response.
C23_DialogFailureIsError ==
  DialogFailed =>
    /\ Len(invocations) = 1
    /\ ~DestructiveExecuted
    /\ ~Response.raised
    /\ Response.isError
    /\ TextContains("System function failed: ")
    /\ ~TextContains("cancelled")

C23_Witness ==
  /\ DialogFailed
  /\ Arguments.function = Some(<<"shutdown">>)
  /\ Arguments.confirm = Some(TRUE)
  /\ invocations[1].outcome = ExitFailure
  /\ Response = Failure(<<"(x) ", "System function failed: ", "Command failed">>)

\* a raycast_shortcut request answered with a success response
ShortcutSucceeded ==
  /\ HandledWith("raycast_shortcut")
  /\ ~Response.raised
  /\ ~Response.isError

\* C24: a success response of raycast_shortcut implies that an external
\* invocation was made and succeeded in the request (so a request with
\* neither shortcut nor custom_key is not answered success); when custom_key
\* is given together with shortcut, the keystroke of custom_key is the only
\* invocation and no URL of the shortcut table is triggered.
C24_ShortcutSuccessMeansInvoked ==
  ShortcutSucceeded =>
    /\ Len(invocations) >= 1
    /\ \A i \in DOMAIN invocations : invocations[i].outcome.ok
    /\ TruthyStr(Arguments.custom_key)
         => /\ Len(invocations) = 1
            /\ invocations[1].command[1] = "osascript -e '"

\* the configuration holds a credential for the service
Configured(service) == TruthyStr(getCredential(config, service))

\* a network call of the request
NetworkCalls == {i \in DOMAIN invocations : invocations[i].via = "fetch"}

\* the github-status workflow is executed
ExecutesGithubStatus ==
  /\ HandledWith("raycast_workflows")
  /\ Arguments.action = Some(<<"execute">>)
  /\ Arguments.name = Some(<<"github-status">>)

\* credentials of a service are validated
ValidatesService ==
  /\ HandledWith("raycast_auth")
  /\ Arguments.action = Some(<<"validate">>)
  /\ TruthyStr(Arguments.service)

\* C25: credential checks precede network use: github-status without a GitHub
\* credential answers an error and makes no network call; validating a
\* service without credential answers invalid, "No credentials found", and
\* makes no network call; valid is answered only after the validator's call
\* was made and completed without raising.
C25_CredentialsBeforeNetwork ==
  /\ (ExecutesGithubStatus /\ ~Configured(<<"github">>))
       => /\ Response.isError
          /\ NetworkCalls = {}
  /\ (ValidatesService /\ ~Configured(Val(Arguments.service)))
       => /\ TextContains("Invalid")
          /\ Carries(Response.text, <<"No credentials found">>)
          /\ NetworkCalls = {}
  /\ (ValidatesService /\ TextContains("Valid"))
       => /\ NetworkCalls = {1}
          /\ invocations[1].outcome.ok

C25_Witness ==
  /\ ExecutesGithubStatus
  /\ ~Configured(<<"github">>)
  /\ Response.isError
  /\ TextContains("GitHub credentials not configured")
  /\ invocations = <<>>

====
